---- MODULE Spec2Model ----
(***************************************************************************)
(* Release-asset validation of detection_rules/devtools.py:                *)
(*   validate_ml_dga_asset        (gh-release validate-ml-dga-asset)       *)
(*   validate_ml_detections_asset (gh-release validate-ml-detections-asset)*)
(*   create_ml_release            (gh-release create-ml)                   *)
(* One run of a command is a sequence of steps, one per filesystem effect  *)
(* (backup copy, one loop iteration, archive), so that the order of the    *)
(* effects is visible in the behaviours.                                   *)
(***************************************************************************)
EXTENDS Integers, Sequences, FiniteSets, TLC

VARIABLES
    cmd,              \* "dga" or "det": the command being run
    pc,               \* position of the run
    run,              \* number of the run on this directory (1, 2, ...)
    now,              \* time.gmtime() of the run, at the resolution of one second
    dir,              \* the bundle directory: file name -> file content
    orig,             \* dir as it was when the run started
    all_files,        \* Path(directory).glob('*'), in the order the OS lists them
    backups,          \* sibling directories backups-<name>-<now>: now -> copy of dir
    zip,              \* <directory>.zip: {} when absent, else {archived dir}
    zipAtStart,       \* whether <directory>.zip existed when the run started
    idx,              \* index of the loop iteration to execute next
    loaded_contents,  \* role -> [contents, filename] (validate_ml_dga_asset)
    sha256,           \* role -> digest echoed for the role (line 658-659)
    opened,           \* files opened for reading by this run
    written,          \* files opened for writing by this run
    error,            \* the exception that ended the run, kind "none" while running
    warned,           \* releases named in the yellow hash-match message
    ledgerKnown,      \* whether the manifests have been fetched at least once
    manifest_hashes,  \* Manifest.get_existing_asset_hashes(repo), flattened
    model_hash,       \* {} or {digest of loaded_contents['model']['contents']}
    description,      \* {} or {the description returned with the zip name}
    first,            \* what the first successful run wrote and hashed
    cml,              \* position of create-ml; "off" when a validator runs alone
    release_name,     \* --release-name of the create-ml invocation
    answer,           \* what the operator answered to click.confirm
    releases,         \* the releases of the repository, in the order created
    assets,           \* the releases a zip asset was uploaded to
    manifests         \* the releases a manifest was saved for

vars == <<cmd, pc, run, now, dir, orig, all_files, backups, zip, zipAtStart, idx,
          loaded_contents, sha256, opened, written, error, warned, ledgerKnown,
          manifest_hashes, model_hash, description, first,
          cml, release_name, answer, releases, assets, manifests>>

\* the state of create-ml and of the repository's releases
rvars == <<cml, release_name, answer, releases, assets, manifests>>

-----------------------------------------------------------------------------
(* Bounds of the model *)

\* most entries a bundle directory holds (one more than the limit of line 635)
MaxFiles == 6
\* most releases the ledger holds
MaxLedger == 2
\* most runs of a command on one directory
MaxRuns == 2
\* most members of the JSON texts an input is compared with
MaxPairs == 2

-----------------------------------------------------------------------------
(* File contents.  A file holds text; a JSON text is an object written as   *)
(* a sequence of "key": value members in the order of the text, with some   *)
(* whitespace style.  Values are strings; "" stands for any falsy value.    *)

JsonText(pairs, ws) == [json |-> TRUE, toml |-> FALSE, pairs |-> pairs, ws |-> ws]
Garbage == [json |-> FALSE, toml |-> FALSE, pairs |-> <<>>, ws |-> "raw"]
TomlText == [json |-> FALSE, toml |-> TRUE, pairs |-> <<>>, ws |-> "raw"]

\* Python's order of the key strings used
KeyOrder == <<"a", "b", "body", "name", "type">>
KeyRank(k) == CHOOSE i \in 1..Len(KeyOrder) : KeyOrder[i] = k

HasKey(d, k) == \E i \in DOMAIN d : d[i][1] = k

\* d[k] = v on a dict: a key seen again keeps its place and takes the new value
DictSet(d, k, v) ==
    IF HasKey(d, k)
    THEN [i \in DOMAIN d |-> IF d[i][1] = k THEN <<k, v>> ELSE d[i]]
    ELSE Append(d, <<k, v>>)

RECURSIVE LoadPairs(_, _)
LoadPairs(ps, d) ==
    IF ps = <<>> THEN d
    ELSE LoadPairs(Tail(ps), DictSet(d, Head(ps)[1], Head(ps)[2]))

\* json.load: the dict of the text, in insertion order
Loads(text) == LoadPairs(text.pairs, <<>>)

RECURSIVE InsertItem(_, _)
InsertItem(s, p) ==
    IF s = <<>> THEN <<p>>
    ELSE IF KeyRank(p[1]) < KeyRank(Head(s)[1]) THEN <<p>> \o s
    ELSE <<Head(s)>> \o InsertItem(Tail(s), p)

RECURSIVE SortItems(_)
SortItems(d) ==
    IF d = <<>> THEN <<>> ELSE InsertItem(SortItems(Tail(d)), Head(d))

\* json.dumps(obj) without sort_keys: members in insertion order
DumpsUnsorted(d) == JsonText(d, "default")
\* json.dumps(obj, sort_keys=True): members by key, separators ', ' and ': '
Dumps(d) == JsonText(SortItems(d), "default")

\* hashlib.sha256(contents.encode('utf-8')).hexdigest(): distinct texts are
\* taken to have distinct digests
Sha256(text) == <<"sha256", text>>

-----------------------------------------------------------------------------
(* File names *)

DgaNames == {"dga_1_model.json", "dga_2_model.json", "dga_1_ngrams_create.json",
             "dga_1_ngrams_transform_delete.json", "dga_1_ingest.json",
             "dga_1_inference.json", "notes.txt"}

DetNames == {"job_1.json", "job_2.json", "rule_1.toml", "rule_2.toml",
             "README.md", "readme.md", "README.txt"}

\* the order in which the OS lists the names (Path.glob makes no promise)
NameOrder == <<"dga_1_model.json", "dga_2_model.json", "dga_1_ngrams_create.json",
               "dga_1_ngrams_transform_delete.json", "dga_1_ingest.json",
               "dga_1_inference.json", "notes.txt",
               "job_1.json", "rule_1.toml", "README.md", "job_2.json",
               "rule_2.toml", "readme.md", "README.txt">>

Reverse(s) == [i \in 1..Len(s) |-> s[Len(s) + 1 - i]]

\* Path.suffix
Suffix(n) ==
    IF n \in {"README.md", "readme.md"} THEN ".md"
    ELSE IF n \in {"README.txt", "notes.txt"} THEN ".txt"
    ELSE IF n \in {"rule_1.toml", "rule_2.toml"} THEN ".toml"
    ELSE ".json"

\* str.lower
SameCase(n) == n
Lower(n) ==
    IF n = "README.md" THEN "readme.md"
    ELSE IF n = "README.txt" THEN "readme.txt"
    ELSE n

\* the file names that fnmatch a glob pattern
Glob(pattern) ==
    CASE pattern = "dga_*_model.json" -> {"dga_1_model.json", "dga_2_model.json"}
      [] pattern = "dga_*_ngrams_create.json" -> {"dga_1_ngrams_create.json"}
      [] pattern = "dga_*_ngrams_transform_delete.json" ->
             {"dga_1_ngrams_transform_delete.json"}
      [] pattern = "dga_*_ingest.json" -> {"dga_1_ingest.json"}
      [] pattern = "dga_*_inference.json" -> {"dga_1_inference.json"}
      [] pattern = "*" -> DgaNames \cup DetNames
      [] OTHER -> {}

\* model_filename.rsplit('_', maxsplit=1)[0]
ModelName(n) ==
    IF n = "dga_1_model.json" THEN "dga_1"
    ELSE IF n = "dga_2_model.json" THEN "dga_2"
    ELSE n

\* eswrap.expected_ml_dga_patterns, in the order of the dict
expected_ml_dga_patterns ==
    << [name |-> "model", pattern |-> "dga_*_model.json"],
       [name |-> "dga_ngrams_create", pattern |-> "dga_*_ngrams_create.json"],
       [name |-> "dga_ngrams_transform_delete",
        pattern |-> "dga_*_ngrams_transform_delete.json"],
       [name |-> "dga_ingest", pattern |-> "dga_*_ingest.json"],
       [name |-> "dga_inference", pattern |-> "dga_*_inference.json"] >>

NumRoles == Len(expected_ml_dga_patterns)
RoleNames == {expected_ml_dga_patterns[i].name : i \in 1..NumRoles}

\* the 5 of "if len(files) > 5"
FileLimitPlusOne == 5 + 1
FileLimit == 5

-----------------------------------------------------------------------------
(* Inputs *)

\* contents a file of a DGA bundle starts with: members out of key order and
\* without spaces, an already canonical text of other data, and a text that
\* is no JSON
Unsorted1 == JsonText(<< <<"b", "2">>, <<"a", "1">> >>, "compact")
Canonical2 == JsonText(<< <<"a", "2">> >>, "default")
DgaTexts == {Unsorted1, Canonical2, Garbage}

\* contents of a job file, members in the order name, type, body
JobFull == JsonText(<< <<"name", "x">>, <<"type", "x">>, <<"body", "x">> >>, "indent")
JobNoName == JsonText(<< <<"type", "x">>, <<"body", "x">> >>, "indent")
JobEmptyType == JsonText(<< <<"name", "x">>, <<"type", "">>, <<"body", "x">> >>, "indent")
JobNoBody == JsonText(<< <<"name", "x">>, <<"type", "x">> >>, "indent")
JobOnlyType == JsonText(<< <<"type", "x">> >>, "indent")
JobTexts == {JobFull, JobNoName, JobEmptyType, JobNoBody, JobOnlyType, Garbage}

DetTexts(n) ==
    IF Suffix(n) = ".json" THEN JobTexts
    ELSE IF Suffix(n) = ".toml" THEN {TomlText, Garbage}
    ELSE {Garbage}

\* the ledger: one entry per release, in the order the manifests are iterated
ReleaseNames == <<"rel-1", "rel-2", "rel-3">>
LedgerFiles == {"dga_1_model.json", "dga_0_model.json"}
LedgerHashes == {Sha256(Dumps(Loads(Unsorted1))), Sha256(Garbage)}
Ledgers ==
    UNION { { [i \in 1..n |-> [release |-> ReleaseNames[i], file_name |-> f[i],
                               sha |-> h[i]]] :
              f \in [1..n -> LedgerFiles], h \in [1..n -> LedgerHashes] } :
            n \in 0..MaxLedger }

SeqOf(order, S) == SelectSeq(order, LAMBDA n : n \in S)

\* the exception that ends a run: what kind, the role, file or release it names,
\* and what it reports (a pattern, a field, a count)
NoError == [kind |-> "none", subject |-> "", detail |-> "", count |-> 0]
Err(kind, subject, detail, count) ==
    [kind |-> kind, subject |-> subject, detail |-> detail, count |-> count]

Init ==
    /\ cmd \in {"dga", "det"}
    /\ \E S \in SUBSET (IF cmd = "dga" THEN DgaNames ELSE DetNames) :
         /\ Cardinality(S) <= MaxFiles
         /\ dir \in IF cmd = "dga" THEN [S -> DgaTexts]
                    ELSE { d \in [S -> JobTexts \cup {TomlText}] :
                             \A n \in S : d[n] \in DetTexts(n) }
    /\ all_files \in IF cmd = "dga" THEN {SeqOf(NameOrder, DOMAIN dir)}
                     ELSE {SeqOf(NameOrder, DOMAIN dir),
                           SeqOf(Reverse(NameOrder), DOMAIN dir)}
    /\ orig = dir
    /\ pc = "start"
    /\ run = 1
    /\ now = 1
    /\ backups = <<>>
    /\ zip = {}
    /\ zipAtStart = FALSE
    /\ idx = 1
    /\ loaded_contents = <<>>
    /\ sha256 = <<>>
    /\ opened = {}
    /\ written = {}
    /\ error = NoError
    /\ warned = {}
    /\ ledgerKnown = FALSE
    /\ manifest_hashes = <<>>
    /\ model_hash = {}
    /\ description = {}
    /\ first = {}
    /\ cml = "off"
    /\ release_name = [prefix |-> "", version |-> 0]
    /\ answer = "none"
    /\ releases = <<>>
    /\ assets = {}
    /\ manifests = {}

-----------------------------------------------------------------------------
(* Steps shared by the two commands *)

\* client_error(...), a failed assert: the exception ends the run
Fail(e) ==
    /\ pc' = "failed"
    /\ error' = e

\* open(path, 'w'); f.write(contents).  Opened with 'a' the file would hold the
\* old text followed by the new one, which is no JSON document; not opened at
\* all it would keep the old text
AppendFile(d, f, contents) == [d EXCEPT ![f] = Garbage]
KeepFile(d, f, contents) == d
WriteFile(d, f, contents) == [d EXCEPT ![f] = contents]

\* shutil.make_archive(directory, 'zip', root_dir=parent, base_dir=name)
make_archive(d) == {d}

-----------------------------------------------------------------------------
(* validate_ml_dga_asset *)

\* list(Path(directory).glob(pattern))
GlobDir(d, pattern) == Glob(pattern) \cap DOMAIN d

DgaRole == expected_ml_dga_patterns[idx]
DgaPath == GlobDir(dir, DgaRole.pattern)
match_count == Cardinality(DgaPath)
\* path[0]
DgaFile == CHOOSE f \in DgaPath : TRUE

\* line 649: if match_count != 1
BadCountZeroOnly(n) == n = 0
BadCount(n) == n # 1

\* lines 634-636: more than 5 entries
DgaTooManyFiles ==
    /\ cmd = "dga" /\ pc = "start"
    /\ Len(all_files) > FileLimit
    /\ Fail(Err("too_many_files", "", "", Len(all_files)))
    /\ UNCHANGED <<rvars, cmd, run, now, dir, orig, all_files, backups, zip, zipAtStart, idx,
                   loaded_contents, sha256, opened, written, warned, ledgerKnown,
                   manifest_hashes, model_hash, description, first>>

\* lines 640-642: the backup copy, once, before the loop over the roles
DgaBackupSkipped ==
    /\ cmd = "dga" /\ pc = "start"
    /\ Len(all_files) <= FileLimit
    /\ pc' = "roles"
    /\ UNCHANGED <<rvars, cmd, run, now, dir, orig, all_files, backups, zip, zipAtStart, idx,
                   loaded_contents, sha256, opened, written, error, warned,
                   ledgerKnown, manifest_hashes, model_hash, description, first>>
DgaBackupAndArchive ==
    /\ cmd = "dga" /\ pc = "start"
    /\ Len(all_files) <= FileLimit
    /\ backups' = (now :> dir) @@ backups
    /\ zip' = make_archive(dir)
    /\ pc' = "roles"
    /\ UNCHANGED <<rvars, cmd, run, now, dir, orig, all_files, zipAtStart, idx,
                   loaded_contents, sha256, opened, written, error, warned,
                   ledgerKnown, manifest_hashes, model_hash, description, first>>
DgaBackup ==
    /\ cmd = "dga" /\ pc = "start"
    /\ Len(all_files) <= FileLimit
    /\ backups' = (now :> dir) @@ backups
    /\ pc' = "roles"
    /\ UNCHANGED <<rvars, cmd, run, now, dir, orig, all_files, zip, zipAtStart, idx,
                   loaded_contents, sha256, opened, written, error, warned,
                   ledgerKnown, manifest_hashes, model_hash, description, first>>

\* lines 647-650: the role's pattern does not match exactly one file
DgaBadMatchCount ==
    /\ cmd = "dga" /\ pc = "roles"
    /\ BadCount(match_count)
    /\ Fail(Err("match_count", DgaRole.name, DgaRole.pattern, match_count))
    /\ UNCHANGED <<rvars, cmd, run, now, dir, orig, all_files, backups, zip, zipAtStart, idx,
                   loaded_contents, sha256, opened, written, warned, ledgerKnown,
                   manifest_hashes, model_hash, description, first>>

\* lines 652-655, 664-665: json.load raises JSONDecodeError
DgaInvalidJson ==
    /\ cmd = "dga" /\ pc = "roles"
    /\ ~BadCount(match_count)
    /\ ~dir[DgaFile].json
    /\ opened' = opened \cup {DgaFile}
    /\ Fail(Err("invalid_json", DgaFile, "", 0))
    /\ UNCHANGED <<rvars, cmd, run, now, dir, orig, all_files, backups, zip, zipAtStart, idx,
                   loaded_contents, sha256, written, warned, ledgerKnown,
                   manifest_hashes, model_hash, description, first>>

\* lines 652-663: load, dump with sorted keys, hash, write back
DgaResave ==
    /\ cmd = "dga" /\ pc = "roles"
    /\ ~BadCount(match_count)
    /\ dir[DgaFile].json
    /\ LET contents == Dumps(Loads(dir[DgaFile]))
       IN /\ loaded_contents' =
                 (DgaRole.name :> [contents |-> contents, filename |-> DgaFile])
                 @@ loaded_contents
          /\ sha256' = (DgaRole.name :> Sha256(contents)) @@ sha256
          /\ dir' = WriteFile(dir, DgaFile, contents)
    /\ opened' = opened \cup {DgaFile}
    /\ written' = written \cup {DgaFile}
    /\ idx' = idx + 1
    /\ pc' = IF idx = NumRoles THEN "ledger" ELSE "roles"
    /\ UNCHANGED <<rvars, cmd, run, now, orig, all_files, backups, zip, zipAtStart, error,
                   warned, ledgerKnown, manifest_hashes, model_hash, description, first>>

\* line 683 and line 688: the two comparisons made for every ledger entry
HashMatch(sha, hash) == hash = sha
NameOrHashMatch(file_name, sha, filename, hash) == filename = file_name \/ hash = sha
NameAndHashMatch(file_name, sha, filename, hash) == filename = file_name /\ hash = sha
NameMatch(file_name, sha, filename, hash) == filename = file_name

\* the entries whose file name is the model's, by position in the iteration
Conflicts(L, filename, hash) ==
    {i \in 1..Len(L) : NameMatch(L[i].file_name, L[i].sha, filename, hash)}
Min(S) == CHOOSE i \in S : \A j \in S : i <= j
\* the entries the loops of lines 681-691 reach: all, or up to the first conflict
Scanned(L, filename, hash) ==
    IF Conflicts(L, filename, hash) = {} THEN 1..Len(L)
    ELSE 1..Min(Conflicts(L, filename, hash))
\* the releases of the yellow messages of lines 685-686
HashWarnings(L, filename, hash) ==
    {L[i].release : i \in {j \in Scanned(L, filename, hash) : HashMatch(L[j].sha, hash)}}

model_filename == loaded_contents["model"].filename
ModelHash == Sha256(loaded_contents["model"].contents)

\* line 679: the ledger is external; what the first fetch returns stays
Fetched(L) == L \in Ledgers /\ (ledgerKnown => L = manifest_hashes)

\* lines 675-691: an entry of the ledger has the model's file name
DgaNameConflict ==
    /\ cmd = "dga" /\ pc = "ledger"
    /\ \E L \in Ledgers :
         /\ Fetched(L)
         /\ Conflicts(L, model_filename, ModelHash) # {}
         /\ manifest_hashes' = L
         /\ warned' = HashWarnings(L, model_filename, ModelHash)
         /\ Fail(Err("name_conflict",
                     L[Min(Conflicts(L, model_filename, ModelHash))].release,
                     model_filename, 0))
    /\ ledgerKnown' = TRUE
    /\ model_hash' = {ModelHash}
    /\ UNCHANGED <<rvars, cmd, run, now, dir, orig, all_files, backups, zip, zipAtStart, idx,
                   loaded_contents, sha256, opened, written, description, first>>

\* lines 675-699: no entry of the ledger has the model's file name
DgaLedgerClear ==
    /\ cmd = "dga" /\ pc = "ledger"
    /\ \E L \in Ledgers :
         /\ Fetched(L)
         /\ Conflicts(L, model_filename, ModelHash) = {}
         /\ manifest_hashes' = L
         /\ warned' = HashWarnings(L, model_filename, ModelHash)
    /\ ledgerKnown' = TRUE
    /\ model_hash' = {ModelHash}
    /\ pc' = "zip"
    /\ UNCHANGED <<rvars, cmd, run, now, dir, orig, all_files, backups, zip, zipAtStart, idx,
                   loaded_contents, sha256, opened, written, error, description, first>>

\* what a successful run leaves for the next run to be compared with
Record(d, shas, desc) == {[dir |-> d, sha256 |-> shas, description |-> desc]}

\* lines 701-719: the archive, then the description
DgaDescription ==
    [model_name |-> ModelName(model_filename), date |-> now, model_sha256 |-> model_hash,
     rules |-> 0, jobs |-> 0, others |-> 0]
DgaZip ==
    /\ cmd = "dga" /\ pc = "zip"
    /\ zip' = make_archive(dir)
    /\ description' = {DgaDescription}
    /\ first' = IF run = 1 THEN Record(dir, sha256, DgaDescription.model_sha256) ELSE first
    /\ pc' = "done"
    /\ UNCHANGED <<rvars, cmd, run, now, dir, orig, all_files, backups, zipAtStart, idx,
                   loaded_contents, sha256, opened, written, error, warned,
                   ledgerKnown, manifest_hashes, model_hash>>

\* the operator runs the command again on the directory of a successful run,
\* at least a second later
Rerun ==
    /\ pc = "done"
    /\ run < MaxRuns
    /\ run' = run + 1
    /\ now' = now + 1
    /\ orig' = dir
    /\ zipAtStart' = (zip # {})
    /\ pc' = "start"
    /\ idx' = 1
    /\ loaded_contents' = <<>>
    /\ sha256' = <<>>
    /\ opened' = {}
    /\ written' = {}
    /\ error' = NoError
    /\ warned' = {}
    /\ model_hash' = {}
    /\ description' = {}
    /\ UNCHANGED <<rvars, cmd, dir, all_files, backups, zip, ledgerKnown, manifest_hashes, first>>

NextDga ==
    \/ DgaTooManyFiles
    \/ DgaBackup
    \/ DgaBadMatchCount
    \/ DgaInvalidJson
    \/ DgaResave
    \/ DgaNameConflict
    \/ DgaLedgerClear
    \/ DgaZip

-----------------------------------------------------------------------------
(* validate_ml_detections_asset *)

\* lines 731-733: the listing split by suffix
job_paths == SelectSeq(all_files, LAMBDA n : Suffix(n) = ".json")
rule_paths == SelectSeq(all_files, LAMBDA n : Suffix(n) = ".toml")
other_paths == SelectSeq(all_files, LAMBDA n : Suffix(n) \notin {".toml", ".json"})

\* line 738
HasReadme == "readme.md" \in {Lower(other_paths[i]) : i \in 1..Len(other_paths)}

\* j.get(k) is truthy
Truthy(j, k) == \E i \in DOMAIN j : j[i][1] = k /\ j[i][2] # ""

\* lines 745-747: the asserts, in order
JobFieldsNoBody == <<"name", "type">>
JobFields == <<"name", "type", "body">>
Missing(j) == {i \in 1..Len(JobFields) : ~Truthy(j, JobFields[i])}

\* where the run continues once job i (rule i) has passed
AfterJob(i) ==
    IF i < Len(job_paths) THEN <<"jobs", i + 1>>
    ELSE IF Len(rule_paths) > 0 THEN <<"rules", 1>>
    ELSE <<"zip", 1>>
AfterRule(i) ==
    IF i < Len(rule_paths) THEN <<"rules", i + 1>> ELSE <<"zip", 1>>

\* lines 738-739
DetMissingReadme ==
    /\ cmd = "det" /\ pc = "start"
    /\ ~HasReadme
    /\ Fail(Err("missing_readme", "", "", 0))
    /\ UNCHANGED <<rvars, cmd, run, now, dir, orig, all_files, backups, zip, zipAtStart, idx,
                   loaded_contents, sha256, opened, written, warned, ledgerKnown,
                   manifest_hashes, model_hash, description, first>>

\* lines 730-741: the readme is there, on to the loops
DetReadmeFoundBackup ==
    /\ cmd = "det" /\ pc = "start"
    /\ HasReadme
    /\ backups' = (now :> dir) @@ backups
    /\ pc' = AfterJob(0)[1]
    /\ idx' = AfterJob(0)[2]
    /\ UNCHANGED <<rvars, cmd, run, now, dir, orig, all_files, zip, zipAtStart,
                   loaded_contents, sha256, opened, written, error, warned,
                   ledgerKnown, manifest_hashes, model_hash, description, first>>
DetReadmeFound ==
    /\ cmd = "det" /\ pc = "start"
    /\ HasReadme
    /\ pc' = AfterJob(0)[1]
    /\ idx' = AfterJob(0)[2]
    /\ UNCHANGED <<rvars, cmd, run, now, dir, orig, all_files, backups, zip, zipAtStart,
                   loaded_contents, sha256, opened, written, error, warned,
                   ledgerKnown, manifest_hashes, model_hash, description, first>>

\* lines 742-744, 748-749: json.load raises JSONDecodeError
DetJobInvalidJsonSkips ==
    /\ cmd = "det" /\ pc = "jobs"
    /\ ~dir[job_paths[idx]].json
    /\ opened' = opened \cup {job_paths[idx]}
    /\ error' = Err("invalid_json", job_paths[idx], "", 0)
    /\ pc' = AfterJob(idx)[1]
    /\ idx' = AfterJob(idx)[2]
    /\ UNCHANGED <<rvars, cmd, run, now, dir, orig, all_files, backups, zip, zipAtStart,
                   loaded_contents, sha256, written, warned, ledgerKnown,
                   manifest_hashes, model_hash, description, first>>
DetJobInvalidJson ==
    /\ cmd = "det" /\ pc = "jobs"
    /\ ~dir[job_paths[idx]].json
    /\ opened' = opened \cup {job_paths[idx]}
    /\ Fail(Err("invalid_json", job_paths[idx], "", 0))
    /\ UNCHANGED <<rvars, cmd, run, now, dir, orig, all_files, backups, zip, zipAtStart, idx,
                   loaded_contents, sha256, written, warned, ledgerKnown,
                   manifest_hashes, model_hash, description, first>>

\* lines 745-747: the first assert that fails names the job file and the field
DetJobMissingField ==
    /\ cmd = "det" /\ pc = "jobs"
    /\ dir[job_paths[idx]].json
    /\ Missing(Loads(dir[job_paths[idx]])) # {}
    /\ opened' = opened \cup {job_paths[idx]}
    /\ Fail(Err("missing_field", job_paths[idx],
                JobFields[Min(Missing(Loads(dir[job_paths[idx]])))], 0))
    /\ UNCHANGED <<rvars, cmd, run, now, dir, orig, all_files, backups, zip, zipAtStart, idx,
                   loaded_contents, sha256, written, warned, ledgerKnown,
                   manifest_hashes, model_hash, description, first>>

\* lines 741-747: the job file passes
DetJobValidResave ==
    /\ cmd = "det" /\ pc = "jobs"
    /\ dir[job_paths[idx]].json
    /\ Missing(Loads(dir[job_paths[idx]])) = {}
    /\ opened' = opened \cup {job_paths[idx]}
    /\ written' = written \cup {job_paths[idx]}
    /\ dir' = WriteFile(dir, job_paths[idx], Dumps(Loads(dir[job_paths[idx]])))
    /\ pc' = AfterJob(idx)[1]
    /\ idx' = AfterJob(idx)[2]
    /\ UNCHANGED <<rvars, cmd, run, now, orig, all_files, backups, zip, zipAtStart,
                   loaded_contents, sha256, error, warned, ledgerKnown,
                   manifest_hashes, model_hash, description, first>>
DetJobValid ==
    /\ cmd = "det" /\ pc = "jobs"
    /\ dir[job_paths[idx]].json
    /\ Missing(Loads(dir[job_paths[idx]])) = {}
    /\ opened' = opened \cup {job_paths[idx]}
    /\ pc' = AfterJob(idx)[1]
    /\ idx' = AfterJob(idx)[2]
    /\ UNCHANGED <<rvars, cmd, run, now, dir, orig, all_files, backups, zip, zipAtStart,
                   loaded_contents, sha256, written, error, warned, ledgerKnown,
                   manifest_hashes, model_hash, description, first>>

\* lines 753-758: pytoml.load raises TomlError
DetRuleInvalid ==
    /\ cmd = "det" /\ pc = "rules"
    /\ ~dir[rule_paths[idx]].toml
    /\ opened' = opened \cup {rule_paths[idx]}
    /\ Fail(Err("invalid_toml", rule_paths[idx], "", 0))
    /\ UNCHANGED <<rvars, cmd, run, now, dir, orig, all_files, backups, zip, zipAtStart, idx,
                   loaded_contents, sha256, written, warned, ledgerKnown,
                   manifest_hashes, model_hash, description, first>>

\* lines 753-756: the rule file passes
DetRuleValid ==
    /\ cmd = "det" /\ pc = "rules"
    /\ dir[rule_paths[idx]].toml
    /\ opened' = opened \cup {rule_paths[idx]}
    /\ pc' = AfterRule(idx)[1]
    /\ idx' = AfterRule(idx)[2]
    /\ UNCHANGED <<rvars, cmd, run, now, dir, orig, all_files, backups, zip, zipAtStart,
                   loaded_contents, sha256, written, error, warned, ledgerKnown,
                   manifest_hashes, model_hash, description, first>>

\* lines 762-783: the archive, then the description
DetDescription ==
    [model_name |-> "", date |-> now, model_sha256 |-> {},
     rules |-> Len(rule_paths), jobs |-> Len(job_paths), others |-> Len(other_paths)]
DetZip ==
    /\ cmd = "det" /\ pc = "zip"
    /\ zip' = make_archive(dir)
    /\ description' = {DetDescription}
    /\ first' = IF run = 1 THEN Record(dir, sha256, {}) ELSE first
    /\ pc' = "done"
    /\ UNCHANGED <<rvars, cmd, run, now, dir, orig, all_files, backups, zipAtStart, idx,
                   loaded_contents, sha256, opened, written, error, warned,
                   ledgerKnown, manifest_hashes, model_hash>>

NextDet ==
    \/ DetMissingReadme
    \/ DetReadmeFound
    \/ DetJobInvalidJson
    \/ DetJobMissingField
    \/ DetJobValid
    \/ DetRuleInvalid
    \/ DetRuleValid
    \/ DetZip

Next == NextDga \/ NextDet \/ Rerun

Spec == Init /\ [][Next]_vars

-----------------------------------------------------------------------------
(* create_ml_release (gh-release create-ml) *)

\* the longest list of releases the model lets the repository grow to
MaxReleases == 3

\* a release name <prefix>-<date>-<version>; the date takes no part in any
\* decision of the command and is left out
Prefixes == {"ML-DGA", "ML-experimental-detections"}
ReleaseInputs == [prefix : Prefixes \cup {"ML-test"}, version : 1..(MaxReleases + 1)]
NoRelease == [prefix |-> "", version |-> 0]

\* re.match(r'^(ML-DGA|ML-experimental-detections)-\d{4}\d{2}\d{2}-\d+$', name)
MatchesPattern(name) == name.prefix \in Prefixes

\* release_name.rsplit('-', 2): name_prefix and int(version)
NamePrefix(name) == name.prefix
Version(name) == name.version

\* r.raw_data['name'].startswith(name_prefix)
StartsWithAny(name, prefix) == TRUE
StartsWith(name, prefix) == name.prefix = prefix

\* max([...], default=0)
Max(S) == IF S = {} THEN 0 ELSE CHOOSE m \in S : \A x \in S : x <= m

\* max_ver: the highest trailing number among the releases of the prefix
MaxVer(prefix) ==
    Max({Version(releases[i]) : i \in {j \in DOMAIN releases :
                                         StartsWith(releases[j], prefix)}})

\* the directories create-ml is given: for each validator one bundle that
\* passes and bundles that fail each of its checks
GoodDga ==
    [n \in DgaNames \ {"dga_2_model.json", "notes.txt"} |-> Unsorted1]
GoodDet ==
    [n \in {"job_1.json", "rule_1.toml", "README.md"} |->
       IF n = "job_1.json" THEN JobFull
       ELSE IF n = "rule_1.toml" THEN TomlText ELSE Garbage]
With(d, n, text) == [m \in DOMAIN d \cup {n} |-> IF m = n THEN text ELSE d[m]]
Without(d, n) == [m \in DOMAIN d \ {n} |-> d[m]]
DgaBundles ==
    {GoodDga,
     With(GoodDga, "notes.txt", Garbage),
     Without(GoodDga, "dga_1_inference.json"),
     With(GoodDga, "dga_1_ingest.json", Garbage)}
DetBundles ==
    {GoodDet,
     Without(GoodDet, "README.md"),
     With(GoodDet, "job_1.json", Garbage),
     With(GoodDet, "job_1.json", JobNoBody),
     With(GoodDet, "rule_1.toml", Garbage)}

\* the validators' variables when a command is given the directory d
Given(c, d, p) ==
    /\ cmd' = c
    /\ dir' = d
    /\ orig' = d
    /\ all_files' = SeqOf(NameOrder, DOMAIN d)
    /\ pc' = p
    /\ run' = 1
    /\ backups' = <<>>
    /\ zip' = {}
    /\ zipAtStart' = FALSE
    /\ idx' = 1
    /\ loaded_contents' = <<>>
    /\ sha256' = <<>>
    /\ opened' = {}
    /\ written' = {}
    /\ warned' = {}
    /\ ledgerKnown' = FALSE
    /\ manifest_hashes' = <<>>
    /\ model_hash' = {}
    /\ description' = {}
    /\ first' = {}
    /\ UNCHANGED now

\* no create-ml command is running: none was started, the last one returned,
\* or it was ended by an exception of its own or of the validator it invoked
NoCommand ==
    \/ cml \in {"idle", "finished", "failed"}
    \/ cml = "validate" /\ pc = "failed"

\* lines 579-581: the two asserts on the name
CmlRejectName ==
    /\ NoCommand
    /\ Len(releases) < MaxReleases
    /\ \E name \in ReleaseInputs, directory_named \in BOOLEAN,
          d \in DgaBundles \cup DetBundles :
         /\ ~(MatchesPattern(name) /\ directory_named)
         /\ release_name' = name
         /\ Given(cmd, d, "idle")
         /\ error' = IF MatchesPattern(name)
                     THEN Err("assert_directory", "", "", 0)
                     ELSE Err("assert_name", "", "", 0)
    /\ cml' = "failed"
    /\ answer' = "none"
    /\ UNCHANGED <<releases, assets, manifests>>

\* lines 587-595: version != max_ver + 1
CmlRejectVersion ==
    /\ NoCommand
    /\ Len(releases) < MaxReleases
    /\ \E name \in ReleaseInputs, d \in DgaBundles \cup DetBundles :
         /\ MatchesPattern(name)
         /\ Version(name) # MaxVer(NamePrefix(name)) + 1
         /\ release_name' = name
         /\ Given(cmd, d, "idle")
         /\ error' = Err("bad_version", NamePrefix(name), "", MaxVer(NamePrefix(name)))
    /\ cml' = "failed"
    /\ answer' = "none"
    /\ UNCHANGED <<releases, assets, manifests>>

\* lines 579-601: the name passes, ctx.invoke of the validator of the prefix
CmlValidate ==
    /\ NoCommand
    /\ Len(releases) < MaxReleases
    /\ \E name \in ReleaseInputs :
         /\ MatchesPattern(name)
         /\ Version(name) = MaxVer(NamePrefix(name)) + 1
         /\ release_name' = name
         /\ IF NamePrefix(name) = "ML-DGA"
            THEN \E d \in DgaBundles : Given("dga", d, "start")
            ELSE \E d \in DetBundles : Given("det", d, "start")
    /\ error' = NoError
    /\ cml' = "validate"
    /\ answer' = "none"
    /\ UNCHANGED <<releases, assets, manifests>>

vvars == <<cmd, pc, run, now, dir, orig, all_files, backups, zip, zipAtStart, idx,
           loaded_contents, sha256, opened, written, error, warned, ledgerKnown,
           manifest_hashes, model_hash, description, first>>

\* line 603: click.confirm('Validation passed, verify output. Continue?');
\* the value it returns is not used
CmlConfirm ==
    /\ cml = "validate" /\ pc = "done"
    /\ answer' \in {"yes", "no"}
    /\ cml' = "release"
    /\ UNCHANGED <<vvars, release_name, releases, assets, manifests>>

\* lines 605-611: gh_repo.create_git_release(name=release_name, ...)
CmlCreateReleaseEarly ==
    /\ cml \in {"validate", "release"}
    /\ releases' = Append(releases, release_name)
    /\ cml' = "upload"
    /\ UNCHANGED <<vvars, release_name, answer, assets, manifests>>
CmlCreateRelease ==
    /\ cml = "release"
    /\ releases' = Append(releases, release_name)
    /\ cml' = "upload"
    /\ UNCHANGED <<vvars, release_name, answer, assets, manifests>>

\* lines 613-615: release.upload_asset(zipped_bundle, ...)
CmlUploadAsset ==
    /\ cml = "upload"
    /\ assets' = assets \cup {release_name}
    /\ cml' = "manifest"
    /\ UNCHANGED <<vvars, release_name, answer, releases, manifests>>

\* lines 617-622: Manifest(repo, tag_name=release_name, ...).save()
CmlSaveManifest ==
    /\ cml = "manifest"
    /\ manifests' = manifests \cup {release_name}
    /\ cml' = "finished"
    /\ UNCHANGED <<vvars, release_name, answer, releases, assets>>

InitCreate ==
    /\ cmd = "dga"
    /\ dir = <<>>
    /\ all_files = <<>>
    /\ orig = dir
    /\ pc = "idle"
    /\ run = 1
    /\ now = 1
    /\ backups = <<>>
    /\ zip = {}
    /\ zipAtStart = FALSE
    /\ idx = 1
    /\ loaded_contents = <<>>
    /\ sha256 = <<>>
    /\ opened = {}
    /\ written = {}
    /\ error = NoError
    /\ warned = {}
    /\ ledgerKnown = FALSE
    /\ manifest_hashes = <<>>
    /\ model_hash = {}
    /\ description = {}
    /\ first = {}
    /\ cml = "idle"
    /\ release_name = NoRelease
    /\ answer = "none"
    /\ releases = <<>>
    /\ assets = {}
    /\ manifests = {}

NextCml ==
    \/ CmlRejectName
    \/ CmlRejectVersion
    \/ CmlValidate
    \/ CmlConfirm
    \/ CmlCreateRelease
    \/ CmlUploadAsset
    \/ CmlSaveManifest

NextCreate == NextDga \/ NextDet \/ NextCml

SpecCreate == InitCreate /\ [][NextCreate]_vars

-----------------------------------------------------------------------------
(* Properties *)

Terminal == pc \in {"done", "failed"}
Range(f) == {f[x] : x \in DOMAIN f}
RolePattern(i) == expected_ml_dga_patterns[i].pattern
RoleName(i) == expected_ml_dga_patterns[i].name
\* the files of the bundle, as the run found it, that match role i
RoleFiles(i) == GlobDir(orig, RolePattern(i))
\* the roles that do not match exactly one file
BadRoles == {i \in 1..NumRoles : Cardinality(RoleFiles(i)) # 1}
\* the roles before role k whose single file is no JSON
Unparsable(k) == {i \in 1..(k - 1) : \E f \in RoleFiles(i) : ~orig[f].json}

\* C1: a run of either command that started without <directory>.zip has
\* <directory>.zip only once it is done and no error was raised: every run
\* that ends in an error leaves no archive, and the archive is the last
\* effect of the run.
C1_NoArchiveUnlessDone ==
    (~zipAtStart /\ zip # {}) => (pc = "done" /\ error = NoError /\ zip = {dir})

C1_Witness ==
    /\ pc = "failed" /\ error.kind = "name_conflict"
    /\ written # {} /\ ~zipAtStart /\ zip = {}

\* C2: in validate-ml-dga-asset at most one backup is made per run, and in
\* every state in which a file has been written back the backup of this run
\* exists and holds the content every file had when the run started.
C2_BackupBeforeRewrite ==
    cmd = "dga" =>
       /\ Cardinality(DOMAIN backups) <= run
       /\ (pc # "start" /\ error.kind # "too_many_files") => DOMAIN backups = 1..run
       /\ written # {} => (now \in DOMAIN backups /\ backups[now] = orig)

C2_Witness ==
    /\ cmd = "dga" /\ pc = "roles" /\ written # {} /\ dir # orig
    /\ now \in DOMAIN backups /\ backups[now] = orig

\* C3 as stated: whenever some role matches no file or several, the run ends
\* with the error naming the first such role and its match count.
C3_Original ==
    (cmd = "dga" /\ Terminal /\ BadRoles # {}) =>
       error = Err("match_count", RoleName(Min(BadRoles)), RolePattern(Min(BadRoles)),
                   Cardinality(RoleFiles(Min(BadRoles))))

\* C3 as amended: whenever some role matches no file or several, the run
\* fails; if the directory holds at most 5 entries and the file of every
\* earlier role parses as JSON, the error names the first such role, its
\* pattern and its match count.
C3_FirstBadRoleReported ==
    (cmd = "dga" /\ Terminal /\ BadRoles # {}) =>
       /\ pc = "failed"
       /\ (Cardinality(DOMAIN orig) <= 5 /\ Unparsable(Min(BadRoles)) = {}) =>
             error = Err("match_count", RoleName(Min(BadRoles)),
                         RolePattern(Min(BadRoles)),
                         Cardinality(RoleFiles(Min(BadRoles))))

C3_Witness ==
    /\ cmd = "dga" /\ pc = "failed" /\ error.kind = "match_count"
    /\ error.count = 2 /\ Cardinality(BadRoles) >= 2

\* the run has made the ledger check
LedgerChecked == cmd = "dga" /\ model_hash # {}
\* the ledger entries with the model's file name, with the model's hash
NameEntries ==
    {i \in 1..Len(manifest_hashes) :
        manifest_hashes[i].file_name = loaded_contents["model"].filename}
HashEntries ==
    {i \in 1..Len(manifest_hashes) : manifest_hashes[i].sha \in model_hash}

\* C4: once validate-ml-dga-asset has checked the ledger, and the ledger holds
\* an entry with the model's file name, the run has failed with the name
\* conflict error about that file, whatever the entry's hash, and it has made
\* no archive and no description.
C4_NameConflictFatal ==
    (LedgerChecked /\ NameEntries # {}) =>
       /\ pc = "failed"
       /\ error = Err("name_conflict", manifest_hashes[Min(NameEntries)].release,
                      loaded_contents["model"].filename, 0)
       /\ description = {}
       /\ ~zipAtStart => zip = {}

C4_Witness ==
    /\ LedgerChecked /\ NameEntries # {} /\ HashEntries = {}
    /\ error.kind = "name_conflict"

\* C5: once validate-ml-dga-asset has checked the ledger, and the ledger holds
\* an entry with the model's hash and none with its file name, the run has not
\* failed, it has warned about exactly the releases holding that hash, and when
\* it is done the archive and the description are made.
C5_HashMatchWarnsOnly ==
    (LedgerChecked /\ NameEntries = {} /\ HashEntries # {}) =>
       /\ pc \in {"zip", "done"}
       /\ error = NoError
       /\ warned = {manifest_hashes[i].release : i \in HashEntries}
       /\ pc = "done" => (zip = {dir} /\ description = {DgaDescription})

C5_Witness ==
    /\ LedgerChecked /\ NameEntries = {} /\ HashEntries # {}
    /\ pc = "done" /\ warned # {}

\* C6: when validate-ml-dga-asset is done, the archive holds the directory as
\* it is now, in which every role file holds the canonical text of what it held
\* when the run started, and the backup of this run holds every file as it was
\* when the run started.
C6_ArchiveAndBackup ==
    (cmd = "dga" /\ pc = "done") =>
       /\ zip = {dir}
       /\ DOMAIN dir = DOMAIN orig
       /\ \A i \in 1..NumRoles : \A f \in RoleFiles(i) : \A z \in zip :
             z[f] = Dumps(Loads(orig[f]))
       /\ written = UNION {RoleFiles(i) : i \in 1..NumRoles}
       /\ now \in DOMAIN backups /\ backups[now] = orig

C6_Witness ==
    /\ cmd = "dga" /\ pc = "done" /\ run = 1 /\ dir # orig
    /\ zip = {dir} /\ backups[now] = orig

\* the job files that parse and lack a truthy name, type or body, by position
LackingJobs ==
    {i \in 1..Len(job_paths) :
        /\ orig[job_paths[i]].json
        /\ \E k \in {"name", "type", "body"} : ~Truthy(Loads(orig[job_paths[i]]), k)}
\* the first of name, type, body that the text lacks
FirstLacking(text) ==
    IF ~Truthy(Loads(text), "name") THEN "name"
    ELSE IF ~Truthy(Loads(text), "type") THEN "type"
    ELSE "body"
JobsUpTo(k) == {job_paths[i] : i \in 1..k}
RulesUpTo(k) == {rule_paths[i] : i \in 1..k}

\* C7: a run that is done has read only files that parse.  A run ended by a
\* parse error has failed with the error naming the file it was processing,
\* which does not parse, and has made no archive; in validate-ml-dga-asset the
\* file of that role and of every later role is not written, not hashed and
\* holds what it held when the run started; in validate-ml-detections-asset
\* the files read are exactly those up to the named one, in the order jobs
\* then rules.
C7_ParseErrorStopsRun ==
    /\ pc = "done" =>
          \A f \in opened : IF Suffix(f) = ".toml" THEN orig[f].toml ELSE orig[f].json
    /\ error.kind \in {"invalid_json", "invalid_toml"} =>
          /\ pc = "failed"
          /\ ~zipAtStart => zip = {}
          /\ description = {}
    /\ (cmd = "dga" /\ error.kind = "invalid_json") =>
          /\ RoleFiles(idx) = {error.subject}
          /\ ~orig[error.subject].json
          /\ \A j \in idx..NumRoles :
                /\ RoleName(j) \notin DOMAIN sha256
                /\ RoleName(j) \notin DOMAIN loaded_contents
                /\ \A f \in RoleFiles(j) : f \notin written /\ dir[f] = orig[f]
    /\ (cmd = "det" /\ error.kind = "invalid_json") =>
          /\ error.subject = job_paths[idx]
          /\ ~orig[error.subject].json
          /\ opened = JobsUpTo(idx)
          /\ dir = orig
    /\ (cmd = "det" /\ error.kind = "invalid_toml") =>
          /\ error.subject = rule_paths[idx]
          /\ ~orig[error.subject].toml
          /\ opened = JobsUpTo(Len(job_paths)) \cup RulesUpTo(idx)
          /\ dir = orig

C7_Witness ==
    /\ cmd = "dga" /\ error.kind = "invalid_json"
    /\ 1 < idx /\ idx < NumRoles
    /\ written # {} /\ zip = {}
    /\ \A j \in idx..NumRoles : Cardinality(RoleFiles(j)) = 1

\* C8: a run of validate-ml-detections-asset on a bundle with a job file that
\* lacks a truthy name, type or body ends failed and without archive; if the
\* bundle has its readme and every job file listed before the first such file
\* parses, the error names that file and the first of name, type, body it
\* lacks, and no file listed after it has been read.
C8_JobFieldRequired ==
    (cmd = "det" /\ Terminal /\ LackingJobs # {}) =>
       /\ pc = "failed"
       /\ ~zipAtStart => zip = {}
       /\ (HasReadme /\ \A i \in 1..Min(LackingJobs) : orig[job_paths[i]].json) =>
             /\ error = Err("missing_field", job_paths[Min(LackingJobs)],
                            FirstLacking(orig[job_paths[Min(LackingJobs)]]), 0)
             /\ opened = JobsUpTo(Min(LackingJobs))

C8_Witness ==
    /\ cmd = "det" /\ pc = "failed" /\ LackingJobs # {}
    /\ error.kind = "missing_field" /\ error.detail = "body"
    /\ idx < Len(job_paths) /\ Len(rule_paths) > 0 /\ zip = {}

\* C9: in a later run of validate-ml-dga-asset on the directory of a first
\* successful run, the directory holds at every step what the first run left,
\* the run does not fail, every digest it echoes is the one the first run
\* echoed for the role, and when it is done it has hashed every role and put
\* the same model hash in the description.
C9_SecondRunIdentical ==
    (cmd = "dga" /\ run >= 2) =>
       \A f \in first :
          /\ dir = f.dir
          /\ pc # "failed"
          /\ \A r \in DOMAIN sha256 : sha256[r] = f.sha256[r]
          /\ pc = "done" =>
                /\ sha256 = f.sha256
                /\ model_hash = f.description
                /\ \A d \in description : d.model_sha256 = f.description

C9_Witness ==
    /\ cmd = "dga" /\ run = 2 /\ pc = "done" /\ first # {}
    /\ written # {} /\ backups[1] # dir /\ backups[2] = dir

\* the JSON texts of at most MaxPairs members
Members == {<<k, v>> : k \in {"a", "b"}, v \in {"1", "2"}}
JsonTexts ==
    UNION { {JsonText(ps, w) : ps \in [1..n -> Members],
                               w \in {"default", "compact", "indent"}} :
            n \in 0..MaxPairs }
\* each of these texts with its JSON data and with what line 655 turns it into
Resaved ==
    {[text |-> t, data |-> Range(Loads(t)), contents |-> Dumps(Loads(t))] :
        t \in JsonTexts}
\* the texts that hold the same JSON data as text
Equivalent(text) ==
    LET data == Range(Loads(text)) IN {e \in Resaved : e.data = data}

\* C10: for every role validate-ml-dga-asset has loaded, the text written to
\* the role's file and the digest echoed are those that any JSON text holding
\* the same data as the file held, in whatever member order and whitespace,
\* is turned into; and the model hash checked against the ledger and put in
\* the description is the digest of the text now in the model file.
C10_HashOfData ==
    cmd = "dga" =>
       /\ \A r \in DOMAIN loaded_contents :
            \A e \in Equivalent(orig[loaded_contents[r].filename]) :
               /\ dir[loaded_contents[r].filename] = e.contents
               /\ loaded_contents[r].contents = e.contents
               /\ sha256[r] = Sha256(e.contents)
       /\ model_hash # {} =>
            model_hash = {Sha256(dir[loaded_contents["model"].filename])}
       /\ \A d \in description :
            d.model_sha256 = {Sha256(dir[loaded_contents["model"].filename])}

C10_Witness ==
    /\ cmd = "dga" /\ pc = "done" /\ run = 1
    /\ orig[loaded_contents["model"].filename] = Unsorted1
    /\ dir[loaded_contents["model"].filename] # Unsorted1
    /\ \E e \in Equivalent(Unsorted1) : e.text.pairs # Unsorted1.pairs

\* the files of the bundle that are neither .json nor .toml and whose name,
\* letter case aside, is readme.md
Readmes ==
    {n \in DOMAIN orig : Suffix(n) \notin {".json", ".toml"}
                         /\ n \in {"README.md", "readme.md", "Readme.md"}}

\* C11 as stated: a run of validate-ml-detections-asset that is done had
\* exactly one readme among the files that are neither .json nor .toml.
C11_Original ==
    (cmd = "det" /\ pc = "done") => Cardinality(Readmes) = 1

\* C11 as amended: a run of validate-ml-detections-asset that is done had at
\* least one file named readme.md, letter case aside, among the files that are
\* neither .json nor .toml; a run on a bundle without such a file has failed
\* with the missing-readme error, before reading any file, and only such a run
\* ends with that error.
C11_ReadmeRequired ==
    (cmd = "det" /\ Terminal) =>
       /\ pc = "done" => Readmes # {}
       /\ Readmes = {} => (pc = "failed" /\ error = Err("missing_readme", "", "", 0)
                           /\ opened = {})
       /\ error.kind = "missing_readme" => Readmes = {}

C11_Witness ==
    /\ cmd = "det" /\ pc = "done"
    /\ Readmes = {"README.md", "readme.md"}

\* C12 as stated: every run of either command that is done has left a backup
\* of the directory as it was when the run started.
C12_Original ==
    pc = "done" => (now \in DOMAIN backups /\ backups[now] = orig)

\* C12 as amended: validate-ml-detections-asset makes no backup and writes no
\* file; validate-ml-dga-asset has made its one backup, of the directory as the
\* run found it, before it reads any file.
C12_BackupOnlyForDga ==
    /\ cmd = "det" => (backups = <<>> /\ written = {})
    /\ (cmd = "dga" /\ opened # {}) =>
          (DOMAIN backups = 1..run /\ backups[now] = orig)

C12_Witness ==
    /\ cmd = "det" /\ pc = "done" /\ opened # {} /\ backups = <<>>

\* the job files of the bundle
Jobs == {n \in DOMAIN orig : Suffix(n) = ".json"}

\* C13 as stated: when validate-ml-detections-asset is done, every job file
\* holds the canonical text of what it held, and so does the archive.
C13_Original ==
    (cmd = "det" /\ pc = "done") =>
       \A n \in Jobs : dir[n] = Dumps(Loads(orig[n])) /\ \A z \in zip : z[n] = dir[n]

\* C13 as amended: validate-ml-detections-asset rewrites no file, job or
\* rule: at every step every file holds what it held when the run started,
\* and the archive of a run that is done holds those files as they were.
C13_NothingRewritten ==
    cmd = "det" =>
       /\ dir = orig
       /\ pc = "done" => zip = {orig}

C13_Witness ==
    /\ cmd = "det" /\ pc = "done" /\ zip = {orig}
    /\ \E n \in Jobs : orig[n] # Dumps(Loads(orig[n]))
    /\ \E n \in DOMAIN orig : Suffix(n) = ".toml"

\* C14: a run of validate-ml-dga-asset that gets past the loop over the roles
\* is on a directory of exactly 5 entries; a run on more than 5 entries has
\* failed with the too-many-files error before anything else, and a run on
\* fewer than 5 entries ends failed.
C14_FiveFiles ==
    cmd = "dga" =>
       /\ pc \in {"ledger", "zip", "done"} => Cardinality(DOMAIN orig) = 5
       /\ (Cardinality(DOMAIN orig) > 5 /\ pc # "start") =>
             (pc = "failed" /\ error = Err("too_many_files", "", "", Cardinality(DOMAIN orig))
              /\ backups = <<>> /\ opened = {})
       /\ (Cardinality(DOMAIN orig) < 5 /\ Terminal) => pc = "failed"

C14_Witness ==
    /\ cmd = "dga" /\ pc = "failed" /\ Cardinality(DOMAIN orig) = 4
    /\ error.kind = "match_count" /\ error.count = 0 /\ idx = NumRoles

\* the files of the roles before role k
RoleFilesBefore(k) == UNION {RoleFiles(i) : i \in 1..(k - 1)}
\* the roles whose file the failed run had rewritten: those before the role
\* it failed at, or all of them when it failed at the ledger
Processed == IF error.kind = "name_conflict" THEN RoleFilesBefore(NumRoles + 1)
             ELSE RoleFilesBefore(idx)

\* C15: when validate-ml-dga-asset has failed at a role (match count, parse
\* error) or at the ledger name check, the files written are exactly those of
\* the roles before the failure, each holds the canonical text of what it
\* held, every other file holds what it held, and the backup of the run is
\* still there with every file as it was when the run started.
C15_PartialRewrite ==
    (cmd = "dga" /\ pc = "failed"
       /\ error.kind \in {"match_count", "invalid_json", "name_conflict"}) =>
       /\ written = Processed
       /\ \A f \in Processed : dir[f] = Dumps(Loads(orig[f]))
       /\ \A f \in DOMAIN orig \ Processed : dir[f] = orig[f]
       /\ now \in DOMAIN backups /\ backups[now] = orig

C15_Witness ==
    /\ cmd = "dga" /\ pc = "failed" /\ error.kind = "match_count"
    /\ idx = 3 /\ dir # orig /\ backups[now] = orig
    /\ \E f \in DOMAIN orig \ Processed : orig[f] = Unsorted1

\* the names of the releases of the repository
Published == Range(releases)

\* the validator create-ml invokes for a name
ValidatorOf(name) == IF name.prefix = "ML-DGA" THEN "dga" ELSE "det"

\* the validator invoked by the running command returned its zip and description
Validated ==
    /\ cmd = ValidatorOf(release_name)
    /\ pc = "done"
    /\ error = NoError
    /\ zip = {dir}
    /\ description # {}

\* the releases of a prefix among the first n of the repository
OfPrefix(prefix, n) == {j \in 1..n : releases[j].prefix = prefix}

\* C16: create-ml publishes nothing unless validation passed, and in a fixed
\* order.  Until the validator of the name's prefix has returned successfully
\* the name is no release, has no asset and no manifest, and it stays so when
\* the validator fails; the release is created only after the validator
\* returned, the asset is uploaded only to an existing release, and the
\* manifest is saved only after the upload.
C16_PublishAfterValidation ==
    /\ assets \subseteq Published
    /\ manifests \subseteq assets
    /\ cml \in {"validate", "release"} =>
         /\ cmd = ValidatorOf(release_name)
         /\ release_name \notin Published
    /\ cml = "release" => Validated
    /\ pc = "failed" =>
         /\ cml = "validate"
         /\ release_name \notin Published
    /\ cml = "upload" =>
         /\ Validated
         /\ releases[Len(releases)] = release_name
         /\ release_name \notin assets
    /\ cml = "manifest" =>
         /\ Validated
         /\ release_name \in assets
         /\ release_name \notin manifests
    /\ cml = "finished" =>
         /\ Validated
         /\ release_name \in manifests

\* the second release of the repository is published, by the other validator
\* than the first
C16_Witness ==
    /\ cml = "finished"
    /\ Len(releases) = 2
    /\ releases[1].prefix # releases[2].prefix
    /\ manifests = Published

\* C17: a name is accepted only if its version is one more than the highest
\* version among the releases of the same prefix (0 when there is none),
\* otherwise the command fails before validating; so the versions published
\* under each prefix are 1..n in the order published, without gap or
\* duplicate, independently for each prefix.
C17_VersionsIncrement ==
    /\ \A i \in DOMAIN releases :
         releases[i].version = Cardinality(OfPrefix(releases[i].prefix, i - 1)) + 1
    /\ cml \in {"validate", "release"} =>
         release_name.version =
             Cardinality(OfPrefix(release_name.prefix, Len(releases))) + 1
    /\ error.kind = "bad_version" =>
         /\ cml = "failed"
         /\ pc = "idle"
         /\ opened = {} /\ written = {} /\ backups = <<>> /\ zip = {}
         /\ release_name.version #
                Cardinality(OfPrefix(release_name.prefix, Len(releases))) + 1
         /\ error.count = Cardinality(OfPrefix(release_name.prefix, Len(releases)))

\* with one release under each prefix, a name is rejected for its version
C17_Witness ==
    /\ Len(releases) = 2
    /\ releases[1].prefix # releases[2].prefix
    /\ error.kind = "bad_version"
    /\ release_name.version = 1

\* C18: the release is created, the asset uploaded and the manifest saved
\* only if the operator answered yes to 'Validation passed, verify output.
\* Continue?': after the answer no, the name is no release, has no asset and
\* no manifest.
C18_DeclineStops ==
    answer = "no" =>
        /\ release_name \notin Published
        /\ release_name \notin assets
        /\ release_name \notin manifests

====
